---- MODULE Spec2Model ----
(***************************************************************************)
(* The per-room chat actor of HTMLChat (Worker/src/chatRoom.js, class      *)
(* ChatRoom): one Durable Object instance owns the storage of one room.    *)
(* The router (Worker/src/index.js) addresses /chat/<room> and /mod/<room> *)
(* to the instance named <room>, so one instance sees one room name; the   *)
(* model is that instance.  Every request handler runs to completion as    *)
(* one action.  Date.now() is the variable `now`, in milliseconds since    *)
(* the instance was constructed; it advances in steps of TickStep or of    *)
(* KICK_DURATION.  The router addresses /pm/<conversation> to the instance *)
(* named pm_<conversation>, which is also the instance of the room of that *)
(* name (a room name is any [\w-]+): the private conversation's log is a   *)
(* key of the same store.  The storage key `moderators` is written by      *)
(* initializeModerationData alone: isModerator compares the name with      *)
(* 'nellowtcs' and no handler reads the key.                               *)
(***************************************************************************)
EXTENDS Integers, Sequences, FiniteSets, TLC

VARIABLES
  now,           \* Date.now()
  authSecret,    \* env.AUTH_SECRET is configured (fixed per deployment)
  messages,      \* storage `messages:<room>`: the room's message log
  users,         \* storage `users:<room>`: presence map name -> lastSeen
  kicked,        \* storage `kicked_users:<room>`: lowercased name -> kick
  banned,        \* storage `banned_users`: lowercased name -> ban
  userMessages,  \* storage `user_messages:<user>`: spam window per user
  privateMessages, \* storage `pm:<conversation>`: a private conversation's log
  moderators,    \* storage `moderators`: the list initializeModerationData seeds
  sweep,         \* the run of cleanupUsers in progress: its position and what it read
  boot,          \* the run of initializeModerationData: its position and what it read
  req,           \* the request handled by the last step
  resp,          \* the response it was given
  removed,       \* history: the keys the last step removed from each table
  history        \* history: the accepted posts, where a specification records them

vars == <<now, authSecret, messages, users, kicked, banned, userMessages,
          privateMessages, moderators, sweep, boot, req, resp, removed, history>>
store == <<messages, users, kicked, banned, userMessages>>
\* what no request handler writes
background == <<moderators, sweep, boot>>
\* the value of removed after a step: to be stated after the step's tables
Removal ==
  removed' = [users |-> (DOMAIN users.map) \ (DOMAIN users'.map),
              kicked |-> (DOMAIN kicked.map) \ (DOMAIN kicked'.map),
              banned |-> (DOMAIN banned.map) \ (DOMAIN banned'.map)]

----------------------------------------------------------------------------
(* Bounds of the model *)

\* Date.now() advances by TickStep milliseconds, or by KICK_DURATION
TickStep == 30000
\* the clock stops MaxTicks steps of TickStep after the start (after one
\* KICK_DURATION more where that step is taken)
MaxTicks == 2
\* accepted posts a behaviour records in history
MaxPosts == 4
\* kickUser appends without a cap: a specification takes kick requests only
\* while the log is shorter than a length it states in terms of MaxOverflow
MaxOverflow == 1
\* the clock's step where posts are sent inside the spam window
SpamStep == 15000

(* Program constants *)

\* chatRoom.js:322 keeps the last 1000 messages; the model keeps the last 3
MAX_MESSAGES == 3
\* chatRoom.js:501 keeps the last 100 private messages; the model keeps 2
MAX_PRIVATE_MESSAGES == 2
\* chatRoom.js:227 keeps the last 10 spam-window entries; the model keeps 2
SPAM_KEEP == 2
\* chatRoom.js:218, identical text is spam for 30 seconds
SPAM_WINDOW == 30000
\* chatRoom.js:144 and :53, presence timeout
TIMEOUT == 60000
\* chatRoom.js:590, a kick lasts 5 minutes
KICK_DURATION == 5 * 60 * 1000
\* JavaScript null or undefined: NULL where a number is expected (ban.expires
\* of a permanent ban, an absent duration), Null where a string is
NULL == -1
Null == "<null>"
\* a JSON value of a request body that is not a string and not falsy (5)
NotAString == "<number>"

(* Inputs *)

Names == {"NellowTCS", "Bob", "bob"}

\* String.prototype.toLowerCase on the names of the model
toLowerCase(s) ==
  CASE s = "NellowTCS" -> "nellowtcs"
    [] s = "NELLOWTCS" -> "nellowtcs"
    [] s = "Bob" -> "bob"
    [] OTHER -> s

----------------------------------------------------------------------------
(* Storage values.  A key of the store is absent (has = FALSE) or holds a   *)
(* map; `get(key) || {}` reads the map of a present key and {} otherwise.   *)

EmptyMap == <<>>
Absent == [has |-> FALSE, map |-> EmptyMap]
Stored(m) == [has |-> TRUE, map |-> m]
Remove(m, k) == [x \in (DOMAIN m) \ {k} |-> m[x]]
Put(m, k, v) == [x \in (DOMAIN m) \cup {k} |-> IF x = k THEN v ELSE m[x]]
\* `if (Object.keys(m).length > 0) put(key, m) else delete(key)`
PutOrDelete(m) == IF DOMAIN m # {} THEN Stored(m) ELSE Absent

----------------------------------------------------------------------------
(* Helpers of the handlers.  A JavaScript method that reads the clock and    *)
(* writes storage is an operator of the values it reads (the time t among   *)
(* them) that yields its return value together with the storage it leaves.  *)

\* isModerator: only NellowTCS, compared in lower case
isModeratorExactCase(username) ==
  username # Null /\ username = "NellowTCS"

isModerator(username) ==
  username # Null /\ toLowerCase(username) = "nellowtcs"

\* authenticateUser: the X-Auth-User header of a request whose X-Auth-Token
\* equals the configured secret, null otherwise
authenticateUser(r) ==
  IF r.token = "none" \/ ~authSecret THEN Null
  ELSE IF r.token # "good" THEN Null
  ELSE r.authUser

\* verifyUserPermission: [ok, user] when it returns user, [~ok, error] when
\* it throws Error(error)
verifyUserPermissionReturnsTarget(r, targetUser, requireModerator) ==
  LET authenticatedUser == authenticateUser(r) IN
  IF authSecret
    THEN IF authenticatedUser = Null
           THEN [ok |-> FALSE, user |-> Null, error |-> "Authentication required"]
         ELSE IF requireModerator /\ ~isModerator(authenticatedUser)
           THEN [ok |-> FALSE, user |-> Null, error |-> "Moderator privileges required"]
         ELSE [ok |-> TRUE, user |-> targetUser, error |-> ""]
    ELSE [ok |-> TRUE, user |-> targetUser, error |-> ""]

verifyUserPermission(r, targetUser, requireModerator) ==
  LET authenticatedUser == authenticateUser(r) IN
  IF authSecret
    THEN IF authenticatedUser = Null
           THEN [ok |-> FALSE, user |-> Null, error |-> "Authentication required"]
         ELSE IF requireModerator /\ ~isModerator(authenticatedUser)
           THEN [ok |-> FALSE, user |-> Null, error |-> "Moderator privileges required"]
         ELSE [ok |-> TRUE, user |-> authenticatedUser, error |-> ""]
    ELSE [ok |-> TRUE, user |-> targetUser, error |-> ""]

\* isKicked: a kick past its expires is deleted and the table written back
isKicked(k, username, t) ==
  LET key == toLowerCase(username) IN
  IF key \notin DOMAIN k.map THEN [res |-> FALSE, kicked |-> k]
  ELSE IF t > k.map[key].expires
    THEN [res |-> FALSE, kicked |-> Stored(Remove(k.map, key))]
  ELSE [res |-> TRUE, kicked |-> k]

\* isBanned: a ban whose expires is not null and past is deleted and the
\* table written back
isBannedKeepsRecord(b, username, t) ==
  LET key == toLowerCase(username) IN
  IF key \notin DOMAIN b.map THEN [res |-> FALSE, banned |-> b]
  ELSE IF b.map[key].expires # NULL /\ t > b.map[key].expires
    THEN [res |-> FALSE, banned |-> b]
  ELSE [res |-> TRUE, banned |-> b]

isBanned(b, username, t) ==
  LET key == toLowerCase(username) IN
  IF key \notin DOMAIN b.map THEN [res |-> FALSE, banned |-> b]
  ELSE IF b.map[key].expires # NULL /\ t > b.map[key].expires
    THEN [res |-> FALSE, banned |-> Stored(Remove(b.map, key))]
  ELSE [res |-> TRUE, banned |-> b]

\* Array.prototype.slice(-n)
LastN(s, n) == IF Len(s) > n THEN SubSeq(s, Len(s) - n + 1, Len(s)) ELSE s

\* moderateMessage: `recentMessages.slice(-10)`, the window that is stored
spamWindowKeptOneLess(recentMessages) == LastN(recentMessages, SPAM_KEEP - 1)

spamWindowKept(recentMessages) == LastN(recentMessages, SPAM_KEEP)

\* moderateMessage: ban, then kick, then identical text within SPAM_WINDOW;
\* an allowed text is appended to the user's window, cut to SPAM_KEEP
moderateMessageKickFirst(text, user, b, k, um, t) ==
  LET kc == isKicked(k, user, t) IN
  IF kc.res
    THEN [allowed |-> FALSE, reason |-> "User is kicked from this room",
          banned |-> b, kicked |-> kc.kicked, userMessages |-> um]
  ELSE
  LET bn == isBanned(b, user, t) IN
  IF bn.res
    THEN [allowed |-> FALSE, reason |-> "User is banned",
          banned |-> bn.banned, kicked |-> kc.kicked, userMessages |-> um]
  ELSE
  LET Recent(msg) == t - msg.time < SPAM_WINDOW
      recentMessages == SelectSeq(um[user], Recent)
  IN
  IF \E i \in 1..Len(recentMessages) : recentMessages[i].text = text
    THEN [allowed |-> FALSE, reason |-> "Spam detected",
          banned |-> bn.banned, kicked |-> kc.kicked, userMessages |-> um]
  ELSE [allowed |-> TRUE, reason |-> "",
        banned |-> bn.banned, kicked |-> kc.kicked,
        userMessages |->
          [um EXCEPT ![user] =
             spamWindowKept(Append(recentMessages, [text |-> text, time |-> t]))]]

moderateMessageRecordsRefused(text, user, b, k, um, t) ==
  LET bn == isBanned(b, user, t) IN
  IF bn.res
    THEN [allowed |-> FALSE, reason |-> "User is banned",
          banned |-> bn.banned, kicked |-> k, userMessages |-> um]
  ELSE
  LET kc == isKicked(k, user, t) IN
  IF kc.res
    THEN [allowed |-> FALSE, reason |-> "User is kicked from this room",
          banned |-> bn.banned, kicked |-> kc.kicked, userMessages |-> um]
  ELSE
  LET Recent(msg) == t - msg.time < SPAM_WINDOW
      recentMessages == SelectSeq(um[user], Recent)
      recorded == [um EXCEPT ![user] =
                     spamWindowKept(Append(recentMessages, [text |-> text, time |-> t]))]
  IN
  IF \E i \in 1..Len(recentMessages) : recentMessages[i].text = text
    THEN [allowed |-> FALSE, reason |-> "Spam detected",
          banned |-> bn.banned, kicked |-> kc.kicked, userMessages |-> recorded]
  ELSE [allowed |-> TRUE, reason |-> "",
        banned |-> bn.banned, kicked |-> kc.kicked, userMessages |-> recorded]

moderateMessage(text, user, b, k, um, t) ==
  LET bn == isBanned(b, user, t) IN
  IF bn.res
    THEN [allowed |-> FALSE, reason |-> "User is banned",
          banned |-> bn.banned, kicked |-> k, userMessages |-> um]
  ELSE
  LET kc == isKicked(k, user, t) IN
  IF kc.res
    THEN [allowed |-> FALSE, reason |-> "User is kicked from this room",
          banned |-> bn.banned, kicked |-> kc.kicked, userMessages |-> um]
  ELSE
  LET Recent(msg) == t - msg.time < SPAM_WINDOW
      recentMessages == SelectSeq(um[user], Recent)
  IN
  IF \E i \in 1..Len(recentMessages) : recentMessages[i].text = text
    THEN [allowed |-> FALSE, reason |-> "Spam detected",
          banned |-> bn.banned, kicked |-> kc.kicked, userMessages |-> um]
  ELSE [allowed |-> TRUE, reason |-> "",
        banned |-> bn.banned, kicked |-> kc.kicked,
        userMessages |->
          [um EXCEPT ![user] =
             spamWindowKept(Append(recentMessages, [text |-> text, time |-> t]))]]

\* updateUserPresence: no presence write for a kicked user
updateUserPresenceKeepsFirstSeen(u, k, username, t) ==
  LET kc == isKicked(k, username, t) IN
  IF kc.res
    THEN [error |-> TRUE, users |-> u, kicked |-> kc.kicked]
  ELSE [error |-> FALSE,
        users |-> IF username \in DOMAIN u.map THEN u ELSE Stored(Put(u.map, username, t)),
        kicked |-> kc.kicked]

updateUserPresence(u, k, username, t) ==
  LET kc == isKicked(k, username, t) IN
  IF kc.res
    THEN [error |-> TRUE, users |-> u, kicked |-> kc.kicked]
  ELSE [error |-> FALSE, users |-> Stored(Put(u.map, username, t)),
        kicked |-> kc.kicked]

\* the entries of a presence map seen less than TIMEOUT ago
ActiveUsers(m, t) == [x \in {y \in DOMAIN m : t - m[y] < TIMEOUT} |-> m[x]]

\* getUsers: the names of the active entries; the map is written back (or
\* its key deleted) when an entry was filtered out
getUsersNoWriteBack(u, t) ==
  [names |-> DOMAIN ActiveUsers(u.map, t), users |-> u]

getUsers(u, t) ==
  LET activeUsers == ActiveUsers(u.map, t) IN
  [names |-> DOMAIN activeUsers,
   users |-> IF Cardinality(DOMAIN activeUsers) # Cardinality(DOMAIN u.map)
               THEN PutOrDelete(activeUsers)
               ELSE u]

----------------------------------------------------------------------------
(* Requests, responses and messages *)

NoReq ==
  [op |-> "none", method |-> Null, user |-> Null, token |-> "none", authUser |-> Null,
   text |-> Null, messageId |-> Null, action |-> Null, target |-> Null,
   duration |-> NULL, reason |-> Null, to |-> Null]
\* no response yet; a response is its status, its text (a text body, or the
\* message of a JSON body), the users list and isModerator flag of a
\* snapshot or heartbeat body, the messageId of a post body, and the keys of
\* the bannedUsers table of a moderation listing
NoResp ==
  [status |-> 0, text |-> Null, users |-> {}, isModerator |-> FALSE, messageId |-> Null,
   bannedUsers |-> {}]
textResponse(text, status) == [NoResp EXCEPT !.status = status, !.text = text]
jsonResponse(text) == [NoResp EXCEPT !.status = 200, !.text = text]

\* a caller: the `user` query parameter and the X-Auth-Token / X-Auth-User
\* headers of a request
Caller(u, token, authUser) == [user |-> u, token |-> token, authUser |-> authUser]
Anonymous(u) == Caller(u, "none", Null)
From(r, c) == [r EXCEPT !.user = c.user, !.token = c.token, !.authUser = c.authUser]

SystemUser == "*** System ***"
Ids(msgs) == {msgs[i].id : i \in 1..Len(msgs)}
\* `msg_${Date.now()}_${Math.random().toString(36).substr(2, 9)}`: the random
\* suffix is taken distinct from the suffixes of the ids in the log
GeneratedId(msgs, t) ==
  LET id(r) == "msg_" \o ToString(t) \o "_" \o ToString(r)
      r == CHOOSE x \in 0..Len(msgs) :
             id(x) \notin Ids(msgs) /\ \A y \in 0..(x - 1) : id(y) \in Ids(msgs)
  IN id(r)
\* Array.prototype.findIndex(msg => msg.id === messageId), 0 for -1
FindIndex(msgs, messageId) ==
  IF messageId \in Ids(msgs)
    THEN CHOOSE i \in 1..Len(msgs) :
           msgs[i].id = messageId /\ \A j \in 1..(i - 1) : msgs[j].id # messageId
    ELSE 0
\* Array.prototype.splice(i, 1)
SpliceToEnd(msgs, i) == SubSeq(msgs, 1, i - 1)

Splice(msgs, i) == SubSeq(msgs, 1, i - 1) \o SubSeq(msgs, i + 1, Len(msgs))
\* `messages.push(message); if (messages.length > 1000) messages.shift()`
PushCappedAtCap(msgs, message) ==
  LET pushed == Append(msgs, message) IN
  IF Len(pushed) >= MAX_MESSAGES THEN Tail(pushed) ELSE pushed

PushCapped(msgs, message) ==
  LET pushed == Append(msgs, message) IN
  IF Len(pushed) > MAX_MESSAGES THEN Tail(pushed) ELSE pushed

----------------------------------------------------------------------------
(* The state after construction: initializeModerationData has run to its    *)
(* end on an empty store and has stored the default moderator list and the  *)
(* empty ban table; no other key of the room exists and no sweep is running.*)

\* positions of the two background runs, with the value their last read gave
SweepIdle == [pc |-> "idle", read |-> Absent]
BootDone == [pc |-> "done", read |-> Absent]
DefaultModerators == <<"admin", "mod">>

Init ==
  /\ now = 0
  /\ moderators = Stored(DefaultModerators)
  /\ sweep = SweepIdle
  /\ boot = BootDone
  /\ authSecret \in BOOLEAN
  /\ messages = <<>>
  /\ users = Absent
  /\ kicked = Absent
  /\ banned = Stored(EmptyMap)
  /\ userMessages = [u \in Names |-> <<>>]
  /\ privateMessages = <<>>
  /\ req = NoReq
  /\ resp = NoResp
  /\ removed = [users |-> {}, kicked |-> {}, banned |-> {}]
  /\ history = <<>>

----------------------------------------------------------------------------
(* GET /chat/<room>: messages, active users, isModerator of the caller.     *)
(* The body's messages are the stored log, which the handler does not      *)
(* change; its users are the names getUsers returns.                        *)

\* the isModerator flag of the snapshot
snapshotIsModerator(r) ==
  IF authSecret
    THEN authenticateUser(r) # Null /\ toLowerCase(authenticateUser(r)) = "nellowtcs"
    ELSE toLowerCase(r.user) = "nellowtcs"

\* what the handler answers to request r and does to the store
SnapshotOf(r) ==
  LET g == getUsers(users, now) IN
  /\ users' = g.users
  /\ resp' = [jsonResponse(Null) EXCEPT !.users = g.names,
                                        !.isModerator = snapshotIsModerator(r)]
  /\ UNCHANGED <<now, authSecret, background, privateMessages, messages, kicked, banned, userMessages, history>>
  /\ Removal

GetSnapshot(c) ==
  LET r == From([NoReq EXCEPT !.op = "snapshot", !.method = "GET"], c) IN
  /\ req' = r
  /\ SnapshotOf(r)

(* POST /chat/<room>: validate, moderate, append, touch presence.          *)
(* record: the specification records the accepted post in history.         *)

\* `!text || typeof text !== 'string'`
InvalidTextFalsyOnly(text) == text = Null \/ text = ""

InvalidText(text) == (text = Null \/ text = "") \/ text = NotAString

Post(u, text, messageId, record) ==
  LET r == [NoReq EXCEPT !.op = "post", !.method = "POST", !.user = u,
                         !.text = text, !.messageId = messageId]
      moderation == moderateMessage(text, u, banned, kicked, userMessages, now)
      message == [id |-> IF messageId # Null THEN messageId
                         ELSE GeneratedId(messages, now),
                  user |-> u, text |-> text, time |-> now, system |-> FALSE]
      up == updateUserPresence(users, moderation.kicked, u, now)
  IN
  /\ record => Len(history) < MaxPosts
  /\ req' = r
  /\ UNCHANGED <<now, authSecret, background, privateMessages>>
  /\ IF InvalidText(text)
       THEN /\ resp' = textResponse("Invalid message", 400)
            /\ UNCHANGED <<store, history>>
     ELSE IF ~moderation.allowed
       THEN /\ resp' = textResponse(moderation.reason, 403)
            /\ banned' = moderation.banned
            /\ kicked' = moderation.kicked
            /\ userMessages' = moderation.userMessages
            /\ UNCHANGED <<messages, users, history>>
     ELSE /\ resp' = [jsonResponse(Null) EXCEPT !.messageId = message.id]
          /\ banned' = moderation.banned
          /\ userMessages' = moderation.userMessages
          /\ messages' = PushCapped(messages, message)
          /\ users' = up.users
          /\ kicked' = up.kicked
          /\ history' = IF record THEN Append(history, message) ELSE history
  /\ Removal

(* PUT /chat/<room>: heartbeat; the result of updateUserPresence is dropped *)

HeartbeatRefusingBanned(u) ==
  LET bn == isBanned(banned, u, now)
      up == updateUserPresence(users, kicked, u, now)
      g == getUsers(up.users, now)
  IN
  /\ req' = [NoReq EXCEPT !.op = "heartbeat", !.method = "PUT", !.user = u]
  /\ banned' = bn.banned
  /\ IF bn.res
       THEN /\ resp' = textResponse("User is banned", 403)
            /\ UNCHANGED <<users, kicked>>
       ELSE /\ users' = g.users
            /\ kicked' = up.kicked
            /\ resp' = [jsonResponse(Null) EXCEPT !.users = g.names]
  /\ UNCHANGED <<now, authSecret, background, privateMessages, messages, userMessages, history>>
  /\ Removal

Heartbeat(u) ==
  LET up == updateUserPresence(users, kicked, u, now)
      g == getUsers(up.users, now)
  IN
  /\ req' = [NoReq EXCEPT !.op = "heartbeat", !.method = "PUT", !.user = u]
  /\ users' = g.users
  /\ kicked' = up.kicked
  /\ resp' = [jsonResponse(Null) EXCEPT !.users = g.names]
  /\ UNCHANGED <<now, authSecret, background, privateMessages, messages, banned, userMessages, history>>
  /\ Removal

(* DELETE /chat/<room> without messageId: the user leaves *)

Leave(u) ==
  /\ req' = [NoReq EXCEPT !.op = "leave", !.method = "DELETE", !.user = u]
  /\ users' = PutOrDelete(Remove(users.map, u))
  /\ resp' = textResponse("OK", 200)
  /\ UNCHANGED <<now, authSecret, background, privateMessages, messages, kicked, banned, userMessages, history>>
  /\ Removal

(* DELETE /chat/<room>?messageId=: deleteMessage *)

\* `message.user !== verifiedUser && !isMod`
DeleteDeniedIgnoringCase(message, verifiedUser) ==
  toLowerCase(message.user) # toLowerCase(verifiedUser) /\ ~isModerator(verifiedUser)

DeleteDenied(message, verifiedUser) ==
  message.user # verifiedUser /\ ~isModerator(verifiedUser)

\* what deleteMessage answers to request r and does to the store
DeleteMessageOf(r) ==
  LET v == verifyUserPermission(r, r.user, FALSE)
      messageIndex == FindIndex(messages, r.messageId)
      message == messages[messageIndex]
      systemMessage ==
        [id |-> "sys_del_" \o ToString(now), user |-> SystemUser,
         text |-> "Message from " \o message.user \o " deleted by " \o v.user
                  \o (IF message.user # v.user THEN " (moderator action)" ELSE ""),
         time |-> now, system |-> TRUE]
  IN
  /\ UNCHANGED <<now, authSecret, background, privateMessages, users, kicked, banned, userMessages, history>>
  /\ IF ~v.ok
       THEN /\ resp' = textResponse(v.error, 403)
            /\ UNCHANGED messages
     ELSE IF messageIndex = 0
       THEN /\ resp' = textResponse("Message not found", 404)
            /\ UNCHANGED messages
     ELSE IF DeleteDenied(message, v.user)
       THEN /\ resp' = textResponse("Unauthorized - can only delete own messages or need moderator privileges", 403)
            /\ UNCHANGED messages
     ELSE /\ messages' = Append(Splice(messages, messageIndex), systemMessage)
          /\ resp' = jsonResponse("deleted")
  /\ Removal

deleteMessage(messageId, c) ==
  LET r == From([NoReq EXCEPT !.op = "delete", !.method = "DELETE",
                              !.messageId = messageId], c)
  IN
  /\ req' = r
  /\ DeleteMessageOf(r)

(* /pm/<conversation>: handlePrivateMessages *)

\* `pm_${Date.now()}_${Math.random().toString(36).substr(2, 9)}`: the random
\* suffix is taken distinct from the suffixes of the ids in the log
GeneratedPrivateId(msgs, t) ==
  LET id(r) == "pm_" \o ToString(t) \o "_" \o ToString(r)
      r == CHOOSE x \in 0..Len(msgs) :
             id(x) \notin Ids(msgs) /\ \A y \in 0..(x - 1) : id(y) \in Ids(msgs)
  IN id(r)
\* `messages.push(message); if (messages.length > 100) messages.shift()`
PushPrivateCappedAtCap(msgs, message) ==
  LET pushed == Append(msgs, message) IN
  IF Len(pushed) >= MAX_PRIVATE_MESSAGES THEN Tail(pushed) ELSE pushed

PushPrivateCapped(msgs, message) ==
  LET pushed == Append(msgs, message) IN
  IF Len(pushed) > MAX_PRIVATE_MESSAGES THEN Tail(pushed) ELSE pushed

\* handlePrivateMessages: GET reads the log; POST validates text and to and
\* appends; no other method is allowed
handlePrivateMessagesModerated(method, u, text, to) ==
  LET message == [id |-> GeneratedPrivateId(privateMessages, now), from |-> u,
                  to |-> to, text |-> text, time |-> now]
      moderation == moderateMessage(text, u, banned, kicked, userMessages, now)
  IN
  /\ req' = [NoReq EXCEPT !.op = "pm", !.method = method, !.user = u,
                          !.text = text, !.to = to]
  /\ UNCHANGED <<now, authSecret, background, messages, users, history>>
  /\ IF method = "GET"
       THEN /\ resp' = jsonResponse(Null)
            /\ UNCHANGED <<privateMessages, banned, kicked, userMessages>>
     ELSE IF method # "POST"
       THEN /\ resp' = textResponse("Method not allowed", 405)
            /\ UNCHANGED <<privateMessages, banned, kicked, userMessages>>
     ELSE IF (text = Null \/ text = "") \/ (to = Null \/ to = "")
       THEN /\ resp' = textResponse("Missing text or recipient", 400)
            /\ UNCHANGED <<privateMessages, banned, kicked, userMessages>>
     ELSE IF ~moderation.allowed
       THEN /\ resp' = textResponse(moderation.reason, 403)
            /\ banned' = moderation.banned
            /\ kicked' = moderation.kicked
            /\ UNCHANGED <<privateMessages, userMessages>>
     ELSE /\ privateMessages' = PushPrivateCapped(privateMessages, message)
          /\ banned' = moderation.banned
          /\ kicked' = moderation.kicked
          /\ userMessages' = moderation.userMessages
          /\ resp' = [jsonResponse(Null) EXCEPT !.messageId = message.id]
  /\ Removal

handlePrivateMessages(method, u, text, to) ==
  LET message == [id |-> GeneratedPrivateId(privateMessages, now), from |-> u,
                  to |-> to, text |-> text, time |-> now]
  IN
  /\ req' = [NoReq EXCEPT !.op = "pm", !.method = method, !.user = u,
                          !.text = text, !.to = to]
  /\ UNCHANGED <<now, authSecret, background, store, history>>
  /\ IF method = "GET"
       THEN /\ resp' = jsonResponse(Null)
            /\ UNCHANGED privateMessages
     ELSE IF method # "POST"
       THEN /\ resp' = textResponse("Method not allowed", 405)
            /\ UNCHANGED privateMessages
     ELSE IF (text = Null \/ text = "") \/ (to = Null \/ to = "")
       THEN /\ resp' = textResponse("Missing text or recipient", 400)
            /\ UNCHANGED privateMessages
     ELSE /\ privateMessages' = PushPrivateCapped(privateMessages, message)
          /\ resp' = [jsonResponse(Null) EXCEPT !.messageId = message.id]
  /\ Removal

(* /mod/<room>: handleModeration and the operations it dispatches to *)

\* banUser: the ban table with the record stored under the lowercased target
banUserZeroExpiresAtOnce(b, targetUser, moderator, reason, durationMinutes, t) ==
  LET ban == [bannedBy |-> moderator, reason |-> reason, timestamp |-> t,
              expires |-> IF durationMinutes # NULL
                            THEN t + (durationMinutes * 60 * 1000)
                            ELSE NULL]
  IN Stored(Put(b.map, toLowerCase(targetUser), ban))

banUser(b, targetUser, moderator, reason, durationMinutes, t) ==
  LET ban == [bannedBy |-> moderator, reason |-> reason, timestamp |-> t,
              expires |-> IF durationMinutes # NULL /\ durationMinutes # 0
                            THEN t + (durationMinutes * 60 * 1000)
                            ELSE NULL]
  IN Stored(Put(b.map, toLowerCase(targetUser), ban))

\* kickUser: the kick table with the record stored under the lowercased target
kickUserKicked(k, targetUser, moderator, reason, t) ==
  Stored(Put(k.map, toLowerCase(targetUser),
             [kickedBy |-> moderator, reason |-> reason, timestamp |-> t,
              expires |-> t + KICK_DURATION]))
\* kickUser: `delete users[targetUser]` and the put of the map that is left
kickUserPresence(u, targetUser) == Stored(Remove(u.map, targetUser))
\* kickUser: the system message, pushed without a length test
kickUserMessages(msgs, targetUser, moderator, reason, t) ==
  Append(msgs,
         [id |-> "sys_kick_" \o ToString(t), user |-> SystemUser,
          text |-> targetUser \o " was kicked by " \o moderator
                   \o (IF reason # "" THEN " (" \o reason \o ")" ELSE "")
                   \o " - banned for 5 minutes",
          time |-> t, system |-> TRUE])

\* a moderation request: the method, and the fields of a POST body
ModRequest(method, action, targetUser, duration) ==
  [method |-> method, action |-> action, target |-> targetUser,
   duration |-> duration, reason |-> ""]

\* what handleModeration answers to request r and does to the store; a kick
\* is taken while the log is shorter than kickRoom
ModerationOf(r, kickRoom) ==
  LET m == [method |-> r.method, action |-> r.action, target |-> r.target,
            duration |-> r.duration, reason |-> r.reason]
      v == verifyUserPermission(r, r.user, TRUE)
      key == toLowerCase(m.target)
  IN
  /\ UNCHANGED <<now, authSecret, background, privateMessages, userMessages, history>>
  /\ IF ~v.ok
       THEN /\ resp' = textResponse(v.error, 403)
            /\ UNCHANGED <<messages, users, kicked, banned>>
     ELSE IF m.method = "POST" /\ m.action = "ban"
       THEN /\ banned' = banUser(banned, m.target, v.user, m.reason, m.duration, now)
            /\ resp' = jsonResponse("User " \o m.target \o " banned")
            /\ UNCHANGED <<messages, users, kicked>>
     ELSE IF m.method = "POST" /\ m.action = "unban"
       THEN IF key \in DOMAIN banned.map
              THEN /\ banned' = Stored(Remove(banned.map, key))
                   /\ resp' = jsonResponse("User " \o m.target \o " unbanned")
                   /\ UNCHANGED <<messages, users, kicked>>
              ELSE /\ resp' = textResponse("User not banned", 400)
                   /\ UNCHANGED <<messages, users, kicked, banned>>
     ELSE IF m.method = "POST" /\ m.action = "kick"
       THEN /\ Len(messages) < kickRoom
            /\ kicked' = kickUserKicked(kicked, m.target, v.user, m.reason, now)
            /\ users' = kickUserPresence(users, m.target)
            /\ messages' = kickUserMessages(messages, m.target, v.user, m.reason, now)
            /\ resp' = jsonResponse("User " \o m.target \o " kicked for 5 minutes")
            /\ UNCHANGED banned
     ELSE IF m.method = "POST" /\ m.action \in {"addMod", "removeMod"}
       THEN /\ resp' = textResponse("Cannot modify moderators - NellowTCS is the only moderator", 403)
            /\ UNCHANGED <<messages, users, kicked, banned>>
     ELSE IF m.method = "GET"
       THEN /\ resp' = [jsonResponse("bannedUsers") EXCEPT !.bannedUsers = DOMAIN banned.map]
            /\ UNCHANGED <<messages, users, kicked, banned>>
     ELSE /\ resp' = textResponse("Method not allowed", 405)
          /\ UNCHANGED <<messages, users, kicked, banned>>
  /\ Removal

handleModeration(c, m, kickRoom) ==
  LET r == From([NoReq EXCEPT !.op = "mod", !.method = m.method, !.action = m.action,
                              !.target = m.target, !.duration = m.duration,
                              !.reason = m.reason], c)
  IN
  /\ req' = r
  /\ ModerationOf(r, kickRoom)

(* setInterval(() => this.cleanupUsers(), 30000): the periodic sweep *)

cleanupExpiredKicksNothingListed(k, t) == k

cleanupExpiredKicks(k, t) ==
  LET kept == [x \in {y \in DOMAIN k.map : ~(t > k.map[y].expires)} |-> k.map[x]] IN
  IF k.has /\ DOMAIN kept # DOMAIN k.map THEN PutOrDelete(kept) ELSE k

cleanupExpiredBansNullAsZero(b, t) ==
  LET Expired(ban) == t > (IF ban.expires = NULL THEN 0 ELSE ban.expires)
      kept == [x \in {y \in DOMAIN b.map : ~Expired(b.map[y])} |-> b.map[x]]
  IN IF DOMAIN kept # DOMAIN b.map THEN Stored(kept) ELSE b

cleanupExpiredBans(b, t) ==
  LET Expired(ban) == ban.expires # NULL /\ ban.expires # 0 /\ t > ban.expires
      kept == [x \in {y \in DOMAIN b.map : ~Expired(b.map[y])} |-> b.map[x]]
  IN IF DOMAIN kept # DOMAIN b.map THEN Stored(kept) ELSE b

cleanupUsers ==
  LET activeUsers == ActiveUsers(users.map, now) IN
  /\ users' = IF users.has /\ DOMAIN activeUsers # DOMAIN users.map
                THEN PutOrDelete(activeUsers)
                ELSE users
  /\ banned' = cleanupExpiredBans(banned, now)
  /\ kicked' = cleanupExpiredKicks(kicked, now)
  /\ req' = [NoReq EXCEPT !.op = "sweep"]
  /\ resp' = NoResp
  /\ UNCHANGED <<now, authSecret, background, privateMessages, messages, userMessages, history>>
  /\ Removal

(* The sweep as the timer runs it.  cleanupUsers is an async function     *)
(* that the timer callback does not await and that the class does not     *)
(* enter into the order of the requests, so a request can be handled      *)
(* between two of its storage operations.  One action per storage         *)
(* operation: a read keeps what it gave in sweep.read; the JavaScript     *)
(* after a read (Date.now(), the filter) runs with the write it leads to. *)

\* cleanupUsers, the loop over `users:` keys, as a function of the map read
cleanupPresence(u, t) ==
  LET activeUsers == ActiveUsers(u.map, t) IN
  IF u.has /\ DOMAIN activeUsers # DOMAIN u.map THEN PutOrDelete(activeUsers) ELSE u

SweepTo(pc, read) ==
  /\ sweep' = [pc |-> pc, read |-> read]
  /\ req' = [NoReq EXCEPT !.op = "sweep"]
  /\ resp' = NoResp
  /\ UNCHANGED <<now, authSecret, moderators, boot, messages, userMessages,
                 privateMessages, history>>
  /\ Removal

\* `await this.state.storage.list({ prefix: 'users:' })`
sweepListUsers ==
  /\ sweep.pc = "idle"
  /\ UNCHANGED <<users, banned, kicked>>
  /\ SweepTo("users", users)

\* the put or delete of the filtered map, where an entry was filtered out
sweepPutUsers ==
  /\ sweep.pc = "users"
  /\ users' = IF cleanupPresence(sweep.read, now) # sweep.read
                THEN cleanupPresence(sweep.read, now)
                ELSE users
  /\ UNCHANGED <<banned, kicked>>
  /\ SweepTo("usersDone", Absent)

\* cleanupExpiredBans: `await this.state.storage.get('banned_users')`
sweepGetBans ==
  /\ sweep.pc = "usersDone"
  /\ UNCHANGED <<users, banned, kicked>>
  /\ SweepTo("bans", banned)

\* cleanupExpiredBans: the put of the filtered table, where it changed
sweepPutBans ==
  /\ sweep.pc = "bans"
  /\ banned' = IF cleanupExpiredBans(sweep.read, now) # sweep.read
                 THEN cleanupExpiredBans(sweep.read, now)
                 ELSE banned
  /\ UNCHANGED <<users, kicked>>
  /\ SweepTo("bansDone", Absent)

\* cleanupExpiredKicks: `await this.state.storage.list({ prefix: 'kicked_users:' })`
sweepListKicks ==
  /\ sweep.pc = "bansDone"
  /\ UNCHANGED <<users, banned, kicked>>
  /\ SweepTo("kicks", kicked)

\* cleanupExpiredKicks: the put or delete of the filtered table
sweepPutKicks ==
  /\ sweep.pc = "kicks"
  /\ kicked' = IF cleanupExpiredKicks(sweep.read, now) # sweep.read
                 THEN cleanupExpiredKicks(sweep.read, now)
                 ELSE kicked
  /\ UNCHANGED <<users, banned>>
  /\ SweepTo("idle", Absent)

(* initializeModerationData as the constructor runs it: the constructor   *)
(* calls the async function and returns without awaiting it, so the first *)
(* requests can be handled between two of its storage operations.  One    *)
(* action per storage operation.                                          *)

BootTo(pc, read) ==
  /\ boot' = [pc |-> pc, read |-> read]
  /\ req' = [NoReq EXCEPT !.op = "boot"]
  /\ resp' = NoResp
  /\ UNCHANGED <<now, authSecret, sweep, messages, users, kicked, userMessages,
                 privateMessages, history>>
  /\ Removal

\* `await this.state.storage.get('moderators')`
bootGetModerators ==
  /\ boot.pc = "start"
  /\ UNCHANGED <<moderators, banned>>
  /\ BootTo("moderators", moderators)

\* `if (!moderators) await this.state.storage.put('moderators', ['admin', 'mod'])`
bootPutModerators ==
  /\ boot.pc = "moderators"
  /\ moderators' = IF ~boot.read.has THEN Stored(DefaultModerators) ELSE moderators
  /\ UNCHANGED banned
  /\ BootTo("moderatorsDone", Absent)

\* `await this.state.storage.get('banned_users')`
bootGetBans ==
  /\ boot.pc = "moderatorsDone"
  /\ UNCHANGED <<moderators, banned>>
  /\ BootTo("bans", banned)

\* `if (!bannedUsers) await this.state.storage.put('banned_users', {})`
bootPutBans ==
  /\ boot.pc = "bans"
  /\ banned' = IF ~boot.read.has THEN Stored(EmptyMap) ELSE banned
  /\ UNCHANGED moderators
  /\ BootTo("done", Absent)

(* The clock *)

Tick(step, last) ==
  /\ now + step <= last
  /\ now' = now + step
  /\ req' = [NoReq EXCEPT !.op = "tick"]
  /\ resp' = NoResp
  /\ UNCHANGED <<authSecret, background, store, privateMessages, history>>
  /\ Removal

----------------------------------------------------------------------------
(* Spec: authorization, moderation and the message log, at one instant of   *)
(* the clock.  Callers with and without a valid token, under both           *)
(* configurations of AUTH_SECRET.                                           *)

Callers ==
  {Anonymous("Bob"), Anonymous("NellowTCS"), Caller("Bob", "bad", "NellowTCS"),
   Caller("Bob", "good", "NellowTCS"), Caller("NellowTCS", "good", "bob")}

ModRequests ==
  {ModRequest("POST", "ban", "Bob", NULL), ModRequest("POST", "unban", "bob", NULL),
   ModRequest("POST", "kick", "bob", NULL), ModRequest("POST", "addMod", "Bob", NULL),
   ModRequest("POST", "removeMod", "Bob", NULL),
   ModRequest("GET", Null, Null, NULL), ModRequest("DELETE", Null, Null, NULL)}

Next ==
  \/ \E u \in {"Bob", "bob"} : Post(u, "a", Null, FALSE)
  \/ \E c \in Callers : GetSnapshot(c)
  \/ \E c \in Callers, messageId \in Ids(messages) \cup {"m1"} : deleteMessage(messageId, c)
  \/ \E c \in Callers, m \in ModRequests : handleModeration(c, m, MaxOverflow + 1)

Spec == Init /\ [][Next]_vars

----------------------------------------------------------------------------
(* The other specifications take moderation requests from the moderator     *)
(* alone, who passes under both configurations of AUTH_SECRET.              *)

Moderator == Caller("NellowTCS", "good", "NellowTCS")
\* the clock's last instant without, and with, the step of KICK_DURATION
LastTick == MaxTicks * TickStep
LastTickAfterKick == KICK_DURATION + MaxTicks * TickStep

(* SpecPosts: posts alone, no deletion and no moderation; history records   *)
(* every accepted post.                                                     *)

NextPosts ==
  \/ \E u \in {"Bob", "bob"}, text \in {"a", "b", ""} : Post(u, text, Null, TRUE)
  \/ GetSnapshot(Anonymous("Bob"))
  \/ Tick(TickStep, LastTick)

SpecPosts == Init /\ [][NextPosts]_vars

(* SpecPosting: one user posting under moderation and over the spam window; *)
(* history records every accepted post.                                     *)

NextPosting ==
  \/ \E text \in {"a", "b", "c"} : Post("bob", text, Null, TRUE)
  \/ \E m \in {ModRequest("POST", "ban", "Bob", NULL), ModRequest("POST", "unban", "bob", NULL),
               ModRequest("POST", "kick", "bob", NULL)} :
       handleModeration(Moderator, m, MAX_MESSAGES + MaxOverflow)
  \/ Tick(TickStep, LastTick)

SpecPosting == Init /\ [][NextPosting]_vars

(* SpecClock: presence, kicks and bans against the clock, with the periodic *)
(* sweep.                                                                   *)

NextClock ==
  \/ \E u \in {"Bob", "bob"} : Heartbeat(u)
  \/ \E u \in {"Bob", "bob"} : Leave(u)
  \/ GetSnapshot(Anonymous("Bob"))
  \/ \E text \in {"a", "", Null, NotAString} : Post("bob", text, Null, FALSE)
  \/ \E m \in {ModRequest("POST", "ban", "Bob", d) : d \in {NULL, 0, 1}}
             \cup {ModRequest("POST", "unban", "bob", NULL),
                   ModRequest("POST", "kick", "bob", NULL)} :
       handleModeration(Moderator, m, MaxOverflow + 1)
  \/ cleanupUsers
  \/ Tick(TickStep, LastTick)
  \/ Tick(KICK_DURATION, LastTickAfterKick)

SpecClock == Init /\ [][NextClock]_vars

(* SpecBans: the ban table and its readers against the clock: bans with a  *)
(* duration and without, the unban, the moderation listing, a post of the  *)
(* banned user and the periodic sweep.                                      *)

NextBans ==
  \/ \E d \in {NULL, 1} :
       handleModeration(Moderator, ModRequest("POST", "ban", "Bob", d), MaxOverflow + 1)
  \/ handleModeration(Moderator, ModRequest("POST", "unban", "bob", NULL), MaxOverflow + 1)
  \/ handleModeration(Moderator, ModRequest("GET", Null, Null, NULL), MaxOverflow + 1)
  \/ Post("bob", "a", Null, FALSE)
  \/ cleanupUsers
  \/ Tick(TickStep, LastTick)
  \/ Tick(KICK_DURATION, LastTickAfterKick)

SpecBans == Init /\ [][NextBans]_vars

(* SpecSpam: one user repeating texts inside and outside the spam window,  *)
(* banned, unbanned and kicked in between; history records every accepted  *)
(* post.                                                                    *)

LastSpamTick == 2 * MaxTicks * SpamStep

NextSpam ==
  \/ \E text \in {"a", "b"} : Post("bob", text, Null, TRUE)
  \/ \E m \in {ModRequest("POST", "ban", "Bob", NULL), ModRequest("POST", "unban", "bob", NULL),
               ModRequest("POST", "kick", "bob", NULL)} :
       handleModeration(Moderator, m, MaxOverflow + 1)
  \/ Tick(SpamStep, LastSpamTick)

SpecSpam == Init /\ [][NextSpam]_vars

(* SpecLog: the message log under posts with and without a messageId of    *)
(* the caller, deletions asked by an author and by the moderator, and       *)
(* kicks, at one instant of the clock.                                      *)

Deleters == {Caller("bob", "good", "bob"), Moderator}

NextLog ==
  \/ \E text \in {"a", "b"}, messageId \in {Null, "m1"} : Post("Bob", text, messageId, FALSE)
  \/ Post("bob", "a", Null, FALSE)
  \/ \E c \in Deleters, messageId \in Ids(messages) : deleteMessage(messageId, c)
  \/ handleModeration(Moderator, ModRequest("POST", "kick", "bob", NULL), MaxOverflow + 1)

SpecLog == Init /\ [][NextLog]_vars

(* SpecPrivate: a private conversation next to the room whose instance      *)
(* holds it: its sender posts in the room and is banned and kicked there.   *)

\* the requests to the conversation: method, text and to of the body
PrivateRequests ==
  {<<"POST", "a", "Bob">>, <<"POST", "b", "Bob">>, <<"POST", "", "Bob">>,
   <<"POST", "a", Null>>, <<"GET", Null, Null>>, <<"PUT", Null, Null>>}

NextPrivate ==
  \/ \E p \in PrivateRequests : handlePrivateMessages(p[1], "bob", p[2], p[3])
  \/ Post("bob", "a", Null, FALSE)
  \/ \E m \in {ModRequest("POST", "ban", "Bob", NULL), ModRequest("POST", "kick", "bob", NULL)} :
       handleModeration(Moderator, m, MaxOverflow + 1)
  \/ Tick(TickStep, TickStep)

SpecPrivate == Init /\ [][NextPrivate]_vars

(* SpecSweep: the timer's sweep, one storage operation at a time, among     *)
(* heartbeats, bans and kicks.                                              *)

NextSweep ==
  \/ sweepListUsers
  \/ sweepPutUsers
  \/ sweepGetBans
  \/ sweepPutBans
  \/ sweepListKicks
  \/ sweepPutKicks
  \/ Heartbeat("bob")
  \/ \E m \in {ModRequest("POST", "ban", "Bob", 1), ModRequest("POST", "ban", "Bob", NULL),
               ModRequest("POST", "kick", "bob", NULL)} :
       handleModeration(Moderator, m, MaxOverflow + 1)
  \/ Tick(TickStep, LastTick)
  \/ Tick(KICK_DURATION, LastTickAfterKick)

SpecSweep == Init /\ [][NextSweep]_vars

(* SpecSweepFair: the sweep among heartbeats, bans with a duration and one  *)
(* kick, where the timer keeps firing and a sweep that has started goes on  *)
(* (the interval of chatRoom.js:28 and the completion of each awaited       *)
(* storage operation), and where the clock goes on to the end of the        *)
(* model's time.                                                            *)

SweepRun ==
  \/ sweepListUsers
  \/ sweepPutUsers
  \/ sweepGetBans
  \/ sweepPutBans
  \/ sweepListKicks
  \/ sweepPutKicks

NextSweepFair ==
  \/ SweepRun
  \/ Heartbeat("bob")
  \/ \E m \in {ModRequest("POST", "ban", "Bob", 1), ModRequest("POST", "kick", "bob", NULL)} :
       handleModeration(Moderator, m, 1)
  \/ Tick(TickStep, LastTick)
  \/ Tick(KICK_DURATION, LastTickAfterKick)

SpecSweepFair ==
  /\ Init /\ [][NextSweepFair]_vars
  /\ WF_vars(SweepRun)
  /\ WF_vars(Tick(TickStep, LastTick))
  /\ WF_vars(Tick(KICK_DURATION, LastTickAfterKick))

(* SpecBoot: the start of an instance, on an empty store or on the store an *)
(* earlier life of the instance left, with initializeModerationData one    *)
(* storage operation at a time among the first requests.                    *)

\* a ban table an earlier life of the instance left
EarlierBans ==
  Stored([n \in {"bob"} |->
            [bannedBy |-> "NellowTCS", reason |-> "", timestamp |-> 0, expires |-> NULL]])

InitBoot ==
  /\ now = 0
  /\ authSecret \in BOOLEAN
  /\ moderators \in {Absent, Stored(DefaultModerators)}
  /\ banned \in {Absent, Stored(EmptyMap), EarlierBans}
  /\ sweep = SweepIdle
  /\ boot = [pc |-> "start", read |-> Absent]
  /\ messages = <<>>
  /\ users = Absent
  /\ kicked = Absent
  /\ userMessages = [u \in Names |-> <<>>]
  /\ privateMessages = <<>>
  /\ req = NoReq
  /\ resp = NoResp
  /\ removed = [users |-> {}, kicked |-> {}, banned |-> {}]
  /\ history = <<>>

NextBoot ==
  \/ bootGetModerators
  \/ bootPutModerators
  \/ bootGetBans
  \/ bootPutBans
  \/ \E m \in {ModRequest("POST", "ban", "Bob", NULL), ModRequest("POST", "unban", "bob", NULL)} :
       handleModeration(Moderator, m, MaxOverflow + 1)
  \/ \E u \in {"Bob", "bob"} : Post(u, "a", Null, FALSE)

SpecBoot == InitBoot /\ [][NextBoot]_vars

----------------------------------------------------------------------------
(* Properties *)

\* the identity a request acts under: the authenticated X-Auth-User where
\* AUTH_SECRET is configured, the `user` query parameter where it is not
CallerIdentity(r) == IF authSecret THEN authenticateUser(r) ELSE r.user

\* C1: a moderation request (ban, unban, kick, GET of the bans) by a caller
\* who does not satisfy isModerator is answered 403 and leaves the ban table,
\* the kick table, the presence map and the message log unchanged, whether
\* or not AUTH_SECRET is configured.
C1_ModerationOnlyByModerator ==
  [][(req'.op = "mod" /\ ~isModerator(CallerIdentity(req')))
       => (resp'.status = 403 /\ UNCHANGED <<banned, kicked, users, messages>>)]_vars

\* C3: a delete-message request for an existing message by a requester who
\* is neither the message's user nor a moderator is answered 403 and leaves
\* the message log unchanged.
C3_DeleteRejectedLeavesLog ==
  [][(/\ req'.op = "delete"
      /\ FindIndex(messages, req'.messageId) # 0
      /\ messages[FindIndex(messages, req'.messageId)].user # CallerIdentity(req')
      /\ ~isModerator(CallerIdentity(req')))
       => (resp'.status = 403 /\ messages' = messages)]_vars

\* a delete request of an identified requester who is not the author of the
\* message and not a moderator has been rejected
C3_Witness ==
  /\ req.op = "delete"
  /\ CallerIdentity(req) # Null
  /\ ~isModerator(CallerIdentity(req))
  /\ FindIndex(messages, req.messageId) # 0
  /\ messages[FindIndex(messages, req.messageId)].user # CallerIdentity(req)
  /\ resp.status = 403

\* C5: after a successful kick of target X no presence entry for X remains
\* in the room, also when the presence entry spells X's name in another
\* letter case than the kick request.
C5_KickRemovesPresence ==
  [][(req'.op = "mod" /\ req'.action = "kick" /\ resp'.status = 200)
       => \A n \in DOMAIN users'.map : toLowerCase(n) # toLowerCase(req'.target)]_vars

\* C2: a room's message log holds at most MAX_MESSAGES entries in every
\* reachable state, the system messages of kicks, bans and deletions
\* included.
C2_LogWithinCap == Len(messages) <= MAX_MESSAGES

\* the accepted posts of text by user u made less than SPAM_WINDOW ago
AcceptedBefore(u, text) ==
  {i \in 1..Len(history) :
     history[i].user = u /\ history[i].text = text /\ now - history[i].time < SPAM_WINDOW}
\* the posts of user u accepted after the i-th accepted post
AcceptedSince(u, i) == {j \in (i + 1)..Len(history) : history[j].user = u}
\* user u is neither banned nor kicked now
NotBarred(u) == ~isBanned(banned, u, now).res /\ ~isKicked(kicked, u, now).res

\* C4: after an accepted post of text T by a user, every post of T by that
\* user less than 30 s later is rejected with 403 and the spam reason,
\* whatever that user posted in between (stated for a poster who is neither
\* banned nor kicked, whose post is refused for that reason first).
C4_RepeatRejectedAsSpam ==
  [][(/\ req'.op = "post"
      /\ AcceptedBefore(req'.user, req'.text) # {}
      /\ NotBarred(req'.user))
       => (resp'.status = 403 /\ resp'.text = "Spam detected")]_vars

\* C4 as amended: ... provided fewer than SPAM_KEEP other posts of that user
\* were accepted in between; the post is rejected with 403, and with the
\* spam reason unless the user is banned or kicked.
C4_RepeatRejectedWhileInWindow ==
  [][(/\ req'.op = "post"
      /\ \E i \in AcceptedBefore(req'.user, req'.text) :
           Cardinality(AcceptedSince(req'.user, i)) < SPAM_KEEP)
       => (/\ resp'.status = 403
           /\ NotBarred(req'.user) => resp'.text = "Spam detected")]_vars

\* a repeat has been rejected as spam with another accepted post in between
C4_Witness ==
  /\ req.op = "post"
  /\ resp.status = 403
  /\ resp.text = "Spam detected"
  /\ \E i \in AcceptedBefore(req.user, req.text) : AcceptedSince(req.user, i) # {}

\* C10: after N accepted posts and no deletion or moderation, the log is the
\* last min(N, MAX_MESSAGES) posted messages in posting order.
C10_LogIsLastPosts == messages = LastN(history, MAX_MESSAGES)

\* one post more than the cap was accepted and the oldest is gone
C10_Witness ==
  /\ Len(history) = MAX_MESSAGES + 1
  /\ messages = Tail(history)
  /\ req.op = "post"
  /\ resp.status = 200

\* user u has a kick record made at most KICK_DURATION ago
KickedWithinDuration(u) ==
  /\ toLowerCase(u) \in DOMAIN kicked.map
  /\ now - kicked.map[toLowerCase(u)].timestamp <= KICK_DURATION
\* user u has a kick record made more than KICK_DURATION ago
KickedLongAgo(u) ==
  /\ toLowerCase(u) \in DOMAIN kicked.map
  /\ now - kicked.map[toLowerCase(u)].timestamp > KICK_DURATION

\* C6: for 5 minutes after user X was kicked every heartbeat by X is answered
\* with a kicked rejection and neither creates nor refreshes a presence entry
\* for X; the first heartbeat by X after the 5 minutes succeeds and lists X.
C6_KickedHeartbeatRejected ==
  [][req'.op = "heartbeat"
       => /\ KickedWithinDuration(req'.user)
               => /\ resp'.status = 403
                  /\ req'.user \in DOMAIN users'.map
                       => /\ req'.user \in DOMAIN users.map
                          /\ users'.map[req'.user] = users.map[req'.user]
          /\ KickedLongAgo(req'.user)
               => /\ resp'.status = 200
                  /\ req'.user \in resp'.users]_vars

\* user u has a ban record whose expires is not null and earlier than now
ExpiredBan(u) ==
  /\ toLowerCase(u) \in DOMAIN banned.map
  /\ banned.map[toLowerCase(u)].expires # NULL
  /\ banned.map[toLowerCase(u)].expires < now

\* C7: when isBanned is evaluated (by a post with a valid text) for a user whose
\* ban record has a non-null expires earlier than now, the post is not
\* rejected for a ban and the stored ban table holds no record for that user
\* afterwards.
C7_ExpiredBanLapses ==
  [][(req'.op = "post" /\ ~InvalidText(req'.text) /\ ExpiredBan(req'.user))
       => (/\ resp'.text # "User is banned"
           /\ toLowerCase(req'.user) \notin DOMAIN banned'.map)]_vars

\* a post was accepted and its isBanned removed the poster's ban record
C7_Witness ==
  /\ req.op = "post"
  /\ resp.status = 200
  /\ toLowerCase(req.user) \in removed.banned

C9_NoStalePresence ==
  [][req'.op \in {"snapshot", "heartbeat"}
       => /\ \A n \in resp'.users :
               \/ n \in DOMAIN users.map /\ now - users.map[n] < TIMEOUT
               \/ req'.op = "heartbeat" /\ n = req'.user
          /\ \A n \in DOMAIN users'.map : now - users'.map[n] < TIMEOUT]_vars

\* a snapshot has purged a stale presence entry
C9_Witness ==
  /\ req.op = "snapshot"
  /\ removed.users # {}

\* the same request with another `user` query parameter
WithUser(r, u) == [r EXCEPT !.user = u]

\* C11: where AUTH_SECRET is configured, the response to a snapshot, a
\* delete-message or a moderation request, and the change of state it
\* makes, are the ones the handler gives the same request under every other
\* `user` query parameter; and a request without a valid token is not
\* reported as moderator by a snapshot, deletes no message and passes no
\* moderation request.
C11_IdentityFromHeadersOnly ==
  [][authSecret' =>
       /\ req'.op = "snapshot" => \A u \in Names : SnapshotOf(WithUser(req', u))
       /\ req'.op = "delete" => \A u \in Names : DeleteMessageOf(WithUser(req', u))
       /\ req'.op = "mod"
            => \A u \in Names : ModerationOf(WithUser(req', u), Len(messages) + 1)
       /\ (req'.op \in {"snapshot", "delete", "mod"} /\ authenticateUser(req') = Null)
            => /\ ~resp'.isModerator
               /\ req'.op # "snapshot" => resp'.status = 403
               /\ UNCHANGED store]_vars

\* with AUTH_SECRET configured, a kick passed and a message of another user
\* was deleted on the X-Auth-User of a request whose `user` parameter names
\* somebody who is not a moderator
C11_Witness ==
  /\ authSecret
  /\ req.op \in {"mod", "delete"}
  /\ ~isModerator(req.user)
  /\ isModerator(authenticateUser(req))
  /\ resp.status = 200
  /\ \E i \in 1..Len(messages) : messages[i].text = "bob was kicked by NellowTCS - banned for 5 minutes"
  /\ \E i \in 1..Len(messages) : messages[i].text = "Message from bob deleted by NellowTCS (moderator action)"

\* C12: a post whose text is missing (Null), empty or not a string is
\* answered 400 and leaves the message log, the spam windows, the presence
\* map, the bans and the kicks as they were.
C12_InvalidPostChangesNothing ==
  [][(req'.op = "post" /\ req'.text \in {Null, "", NotAString})
       => (resp'.status = 400 /\ UNCHANGED store)]_vars

\* a post of a text that is not a string was answered 400 while the poster
\* has an expired ban record and an expired kick record, which the
\* moderation of a valid post would have deleted
C12_Witness ==
  /\ req.op = "post"
  /\ req.text = NotAString
  /\ resp.status = 400
  /\ ExpiredBan(req.user)
  /\ KickedLongAgo(req.user)
  /\ userMessages[req.user] # <<>>

\* user u has a ban record that has not expired now
BannedNow(u) ==
  /\ toLowerCase(u) \in DOMAIN banned.map
  /\ (banned.map[toLowerCase(u)].expires = NULL
        \/ now <= banned.map[toLowerCase(u)].expires)
\* user u has a kick record that has not expired now
KickedNow(u) ==
  /\ toLowerCase(u) \in DOMAIN kicked.map
  /\ now <= kicked.map[toLowerCase(u)].expires
\* user u has in the spam window a text posted less than SPAM_WINDOW ago
InSpamWindow(u, text) ==
  \E i \in 1..Len(userMessages[u]) :
    userMessages[u][i].text = text /\ now - userMessages[u][i].time < SPAM_WINDOW

\* C13: a post with a valid text is accepted or answered 403; the reason of
\* the 403 is 'User is banned' when the poster is banned, otherwise 'User is
\* kicked from this room' when kicked, otherwise 'Spam detected'; and the
\* refused post leaves the message log and the presence map as they were.
C13_RefusalReasonByPrecedence ==
  [][(req'.op = "post" /\ ~InvalidText(req'.text))
       => /\ resp'.status \in {200, 403}
          /\ resp'.status = 403 <=>
                (BannedNow(req'.user) \/ KickedNow(req'.user)
                   \/ InSpamWindow(req'.user, req'.text))
          /\ resp'.status = 403
               => /\ resp'.text =
                       IF BannedNow(req'.user) THEN "User is banned"
                       ELSE IF KickedNow(req'.user) THEN "User is kicked from this room"
                       ELSE "Spam detected"
                  /\ messages' = messages
                  /\ users' = users]_vars

\* a post was refused for the ban of a poster who is also kicked and
\* repeats a text of the spam window
C13_Witness ==
  /\ req.op = "post"
  /\ resp.status = 403
  /\ resp.text = "User is banned"
  /\ BannedNow(req.user)
  /\ KickedNow(req.user)
  /\ InSpamWindow(req.user, req.text)
  /\ users.map # EmptyMap

\* C14: an unban request of a moderator for a user who has no ban record
\* changes no state and is answered as an ordinary result (status 200), not
\* as an error response.
C14_UnbanWithoutRecordIsNoOp ==
  [][(/\ req'.op = "mod" /\ req'.method = "POST" /\ req'.action = "unban"
      /\ isModerator(CallerIdentity(req'))
      /\ toLowerCase(req'.target) \notin DOMAIN banned.map)
       => (resp'.status = 200 /\ UNCHANGED store)]_vars

\* C15: every successful ban and every successful kick appends exactly one
\* system message (system: true, user '*** System ***') to the room's
\* message log.
C15_BanAndKickAppendSystemMessage ==
  [][(/\ req'.op = "mod" /\ req'.method = "POST" /\ req'.action \in {"ban", "kick"}
      /\ resp'.status = 200)
       => (/\ Len(messages') = Len(messages) + 1
           /\ SubSeq(messages', 1, Len(messages)) = messages
           /\ messages'[Len(messages')].system
           /\ messages'[Len(messages')].user = SystemUser)]_vars

\* C16: when the author of a message, or a moderator, asks to delete it
\* (under the identity the request acts under), the request succeeds, the
\* first log entry with that id is removed, the other messages keep their
\* order, and the last log entry is one system message (system: true, user
\* '*** System ***') whose text names the original author and the deleter.
C16_DeleteRemovesOneAndReports ==
  [][(/\ req'.op = "delete"
      /\ FindIndex(messages, req'.messageId) # 0
      /\ CallerIdentity(req') # Null
      /\ \/ messages[FindIndex(messages, req'.messageId)].user = CallerIdentity(req')
         \/ isModerator(CallerIdentity(req')))
       => LET i == FindIndex(messages, req'.messageId)
              author == messages[i].user
              deleter == CallerIdentity(req')
              last == messages'[Len(messages')]
          IN /\ resp'.status = 200
             /\ Len(messages') = Len(messages)
             /\ \A j \in 1..(Len(messages) - 1) :
                  messages'[j] = messages[IF j < i THEN j ELSE j + 1]
             /\ last.system
             /\ last.user = SystemUser
             /\ last.text \in
                  {"Message from " \o author \o " deleted by " \o deleter,
                   "Message from " \o author \o " deleted by " \o deleter
                     \o " (moderator action)"}]_vars

\* a moderator has deleted the second of three posts, a post of another
\* user
C16_Witness ==
  /\ req.op = "delete"
  /\ resp.status = 200
  /\ isModerator(CallerIdentity(req))
  /\ Len(messages) = 3
  /\ messages[1].id = "msg_0_0"
  /\ messages[2].id = "msg_0_2"
  /\ messages[3].text = "Message from bob deleted by NellowTCS (moderator action)"

\* C17: in every reachable state the ids of the messages of the room's log
\* are pairwise distinct, ids assigned by the actor, ids supplied by callers
\* and ids of system messages alike.
C17_IdsDistinct ==
  \A i, j \in 1..Len(messages) : i # j => messages[i].id # messages[j].id

\* C18: the private conversation's log never holds more than
\* MAX_PRIVATE_MESSAGES messages; an accepted post appends its message, and
\* at the cap it evicts the oldest message while the others keep their
\* order.
C18_PrivateLogWithinCap ==
  /\ [](Len(privateMessages) <= MAX_PRIVATE_MESSAGES)
  /\ [][(req'.op = "pm" /\ req'.method = "POST" /\ resp'.status = 200)
          => /\ privateMessages' # <<>>
             /\ LET message == privateMessages'[Len(privateMessages')] IN
                  /\ message.from = req'.user
                  /\ message.to = req'.to
                  /\ message.text = req'.text
                  /\ message.time = now
                  /\ privateMessages' =
                       IF Len(privateMessages) = MAX_PRIVATE_MESSAGES
                         THEN Append(Tail(privateMessages), message)
                         ELSE Append(privateMessages, message)]_vars

\* the third post to the conversation has evicted the first
C18_Witness ==
  /\ req.op = "pm"
  /\ resp.status = 200
  /\ Len(privateMessages) = MAX_PRIVATE_MESSAGES
  /\ privateMessages[1].id = "pm_0_1"
  /\ privateMessages[MAX_PRIVATE_MESSAGES].id = resp.messageId
  /\ resp.messageId = "pm_0_" \o ToString(MAX_PRIVATE_MESSAGES)

\* C19: a private-conversation post with a non-empty text and recipient is
\* accepted whatever the sender's ban, kick and spam-window state, and
\* leaves the bans, the kicks, the spam windows, the presence map and the
\* room's message log as they were.
C19_PrivatePostUnmoderated ==
  [][(/\ req'.op = "pm" /\ req'.method = "POST"
      /\ req'.text \notin {Null, ""}
      /\ req'.to \notin {Null, ""})
       => (/\ resp'.status = 200
           /\ privateMessages' # <<>>
           /\ privateMessages'[Len(privateMessages')].id = resp'.messageId
           /\ privateMessages'[Len(privateMessages')].text = req'.text
           /\ UNCHANGED <<banned, kicked, userMessages, users, messages>>)]_vars

\* a private post was accepted from a sender who is banned, kicked from the
\* room and repeats the text of the room's spam window
C19_Witness ==
  /\ req.op = "pm"
  /\ req.method = "POST"
  /\ resp.status = 200
  /\ BannedNow(req.user)
  /\ KickedNow(req.user)
  /\ InSpamWindow(req.user, req.text)
  /\ \E i \in 1..Len(privateMessages) : privateMessages[i].id = resp.messageId

\* the names isModerator is asked about: the names of the model, other
\* spellings of the moderator's, and the names initializeModerationData
\* stores under `moderators`
Spellings == Names \cup {"nellowtcs", "NELLOWTCS", "admin", "mod"}

\* C20: in every reachable state isModerator holds of exactly the spellings
\* of the one fixed moderator name; an authenticated moderation request
\* fails the moderator test exactly when its X-Auth-User is not one of
\* them; and every addMod and removeMod request is answered 403 and changes
\* nothing.
C20_ModeratorIsFixed ==
  /\ []({u \in Spellings : isModerator(u)} = {"NellowTCS", "nellowtcs", "NELLOWTCS"})
  /\ [][req'.op = "mod"
          => /\ (authSecret' /\ authenticateUser(req') # Null)
                  => (resp'.text = "Moderator privileges required"
                        <=> authenticateUser(req') \notin {"NellowTCS", "nellowtcs", "NELLOWTCS"})
             /\ (req'.method = "POST" /\ req'.action \in {"addMod", "removeMod"})
                  => (resp'.status = 403 /\ UNCHANGED store)]_vars

\* an addMod request of the moderator was refused as such, with a ban stored
C20_Witness ==
  /\ req.op = "mod"
  /\ req.action = "addMod"
  /\ isModerator(CallerIdentity(req))
  /\ resp.status = 403
  /\ resp.text = "Cannot modify moderators - NellowTCS is the only moderator"
  /\ banned.map # EmptyMap

\* C21: a run of the sweep loses no effect of a request: a step of the
\* sweep removes no presence entry touched less than TIMEOUT ago, no ban
\* that has not expired and no kick that has not expired, whatever requests
\* were handled between its reads and its writes.
C21_SweepLosesNoRequestEffect ==
  [][req'.op = "sweep"
       => /\ \A n \in DOMAIN users.map :
               now - users.map[n] < TIMEOUT
                 => (n \in DOMAIN users'.map /\ users'.map[n] = users.map[n])
          /\ \A n \in DOMAIN banned.map :
               (banned.map[n].expires = NULL \/ now <= banned.map[n].expires)
                 => (n \in DOMAIN banned'.map /\ banned'.map[n] = banned.map[n])
          /\ \A n \in DOMAIN kicked.map :
               now <= kicked.map[n].expires
                 => (n \in DOMAIN kicked'.map /\ kicked'.map[n] = kicked.map[n])]_vars

\* C22: a step of initializeModerationData writes the moderator list only
\* when none is stored and the ban table only when none is stored: it
\* changes neither a list or table that is in the store before the step,
\* whether an earlier life of the instance or a request handled during the
\* initialization stored it.
C22_SeedingReplacesNothing ==
  [][req'.op = "boot"
       => /\ moderators.has => moderators' = moderators
          /\ banned.has => banned' = banned]_vars

\* user n has a presence entry last touched TIMEOUT or more ago
StalePresence(n) == n \in DOMAIN users.map /\ now - users.map[n] >= TIMEOUT
\* key n has a ban record with a finite expires that has passed
LapsedBan(n) ==
  /\ n \in DOMAIN banned.map
  /\ banned.map[n].expires # NULL
  /\ now > banned.map[n].expires
\* key n has a kick record whose expires has passed
LapsedKick(n) == n \in DOMAIN kicked.map /\ now > kicked.map[n].expires

\* C23: where the sweep is scheduled fairly, a presence entry whose timeout
\* has passed, a ban whose finite expiry has passed and a kick whose expiry
\* has passed are eventually out of the store (or replaced by a request
\* that touches, bans or kicks anew), whether or not a request reads them.
C23_SweepEventuallyRemoves ==
  /\ \A n \in {"Bob", "bob"} : StalePresence(n) ~> ~StalePresence(n)
  /\ \A n \in {"bob"} : LapsedBan(n) ~> ~LapsedBan(n)
  /\ \A n \in {"bob"} : LapsedKick(n) ~> ~LapsedKick(n)

\* a step of the sweep has removed the stale presence entry, the lapsed ban
\* and the lapsed kick, the store's last entries
C23_Witness ==
  /\ req.op = "sweep"
  /\ sweep.pc = "idle"
  /\ removed.kicked = {"bob"}
  /\ now > KICK_DURATION
  /\ banned.map = EmptyMap
  /\ ~users.has
  /\ Len(messages) > 0

\* C24: in every reachable state the room's stored presence map is absent
\* or holds an entry: no operation stores an empty map.
C24_PresenceMapNeverStoredEmpty == users.has => users.map # EmptyMap

\* C25: a ban past its expires is absent for every reader of the ban table:
\* an unban request for such a user reports that no ban existed (the answer
\* a user without a record gets), and the moderation listing does not show
\* the record.
C25_ExpiredBanAbsentForEveryReader ==
  [][(req'.op = "mod" /\ resp'.status # 403)
       => /\ (req'.method = "POST" /\ req'.action = "unban" /\ ExpiredBan(req'.target))
               => resp'.text = "User not banned"
          /\ req'.method = "GET"
               => \A n \in Names : ExpiredBan(n) => toLowerCase(n) \notin resp'.bannedUsers]_vars

\* C25, the part that holds: the listing shows the stored table as it is, and
\* an unban answers "unbanned" exactly when the table holds a record of the
\* target, whatever its expires.
C25_ReadersUseTheStoredTable ==
  [][(req'.op = "mod" /\ resp'.status # 403)
       => /\ (req'.method = "POST" /\ req'.action = "unban")
               => /\ (resp'.status = 200) = (toLowerCase(req'.target) \in DOMAIN banned.map)
                  /\ toLowerCase(req'.target) \notin DOMAIN banned'.map
          /\ req'.method = "GET" => resp'.bannedUsers = DOMAIN banned.map]_vars

\* C26: an accepted post appends exactly one message, as the last entry of
\* the log, with user = the caller, the given text and time = now; the
\* response carries the stored id as messageId; {text, now} is the last
\* entry of the poster's spam window, which holds at most SPAM_KEEP entries;
\* and the poster is among the active users right after the post.
C26_AcceptedPostEffect ==
  [][(req'.op = "post" /\ resp'.status = 200)
       => /\ \E k \in 0..Len(messages) :
               LET pushed == Append(messages, messages'[Len(messages')])
               IN messages' = SubSeq(pushed, k + 1, Len(pushed))
          /\ LET last == messages'[Len(messages')]
             IN /\ last.user = req'.user
                /\ last.text = req'.text
                /\ last.time = now
                /\ ~last.system
                /\ resp'.messageId = last.id
          /\ LET window == userMessages'[req'.user]
             IN /\ Len(window) \in 1..SPAM_KEEP
                /\ window[Len(window)] = [text |-> req'.text, time |-> now]
          /\ users'.has
          /\ req'.user \in DOMAIN ActiveUsers(users'.map, now')]_vars

\* an accepted post on a full log and a full spam window: the log and the
\* window have both dropped their oldest entry
C26_Witness ==
  /\ req.op = "post"
  /\ resp.status = 200
  /\ Len(messages) = MAX_MESSAGES
  /\ messages[Len(messages)].text = "c"
  /\ resp.messageId = messages[Len(messages)].id
  /\ Len(userMessages["bob"]) = SPAM_KEEP
  /\ userMessages["bob"][1].text = "b"
  /\ "bob" \in DOMAIN users.map

\* the times of the accepted posts of text by user u
AcceptedAt(u, text) ==
  {history[i].time : i \in {j \in 1..Len(history) :
                               history[j].user = u /\ history[j].text = text}}

\* C27: a post refused with 403 (spam, banned or kicked) leaves every spam
\* window as it was; and a post with a valid text by a user neither banned
\* nor kicked is accepted when every accepted post of that text by that user
\* is SPAM_WINDOW or more old, whatever was refused in between.
C27_RefusedPostsDoNotExtendBlock ==
  [][req'.op = "post"
       => /\ resp'.status = 403 => userMessages' = userMessages
          /\ (/\ ~InvalidText(req'.text)
              /\ ~BannedNow(req'.user)
              /\ ~KickedNow(req'.user)
              /\ \A t \in AcceptedAt(req'.user, req'.text) : now - t >= SPAM_WINDOW)
               => resp'.status = 200]_vars

\* a repeat accepted exactly SPAM_WINDOW after the accepted post of the same
\* text, two clock steps later: a repeat sent at the step in between was
\* refused
C27_Witness ==
  /\ req.op = "post"
  /\ resp.status = 200
  /\ now = 2 * SpamStep
  /\ AcceptedAt("bob", req.text) = {0, now}
  /\ Len(userMessages["bob"]) = 1

\* C28: bans and kicks apply to every letter-case variant of the target:
\* while a ban or kick of a name equal to the caller's ignoring case is in
\* force, a post with a valid text is answered 403; while such a kick is in
\* force a heartbeat is refused too; and an unban under any variant of the
\* banned name leaves no record of it.
C28_BarsApplyToEveryCaseVariant ==
  [][/\ (req'.op = "post" /\ ~InvalidText(req'.text)
           /\ (BannedNow(req'.user) \/ KickedNow(req'.user)))
          => resp'.status = 403
     /\ (req'.op = "heartbeat" /\ KickedNow(req'.user))
          => resp'.status # 200
     /\ (req'.op = "mod" /\ req'.action = "unban" /\ resp'.status # 403)
          => toLowerCase(req'.target) \notin DOMAIN banned'.map]_vars

\* C28, the part that holds: the same with the kicked user's heartbeat
\* judged by its effect rather than by its status: it writes no presence
\* entry (an entry under the caller's spelling that the kick, which deletes
\* the target's spelling alone, left in place is not refreshed).
C28_BarsApplyToEveryCaseVariantInEffect ==
  [][/\ (req'.op = "post" /\ ~InvalidText(req'.text)
           /\ (BannedNow(req'.user) \/ KickedNow(req'.user)))
          => resp'.status = 403
     /\ (req'.op = "heartbeat" /\ KickedNow(req'.user))
          => (req'.user \in DOMAIN users'.map
                => /\ req'.user \in DOMAIN users.map
                   /\ users'.map[req'.user] = users.map[req'.user])
     /\ (req'.op = "mod" /\ req'.action = "unban" /\ resp'.status # 403)
          => toLowerCase(req'.target) \notin DOMAIN banned'.map]_vars

\* C29: a ban only blocks posting: an accepted ban request leaves the
\* presence map as it was, and the heartbeat of a user who is banned and not
\* kicked is answered 200, sets their presence entry to now and lists them
\* among the active users.
C29_BanLeavesPresenceAlone ==
  [][/\ (req'.op = "mod" /\ req'.action = "ban" /\ resp'.status = 200)
          => users' = users
     /\ (req'.op = "heartbeat" /\ BannedNow(req'.user) /\ ~KickedNow(req'.user))
          => /\ resp'.status = 200
             /\ users'.has
             /\ req'.user \in DOMAIN users'.map
             /\ users'.map[req'.user] = now
             /\ req'.user \in resp'.users
             /\ req'.user \in DOMAIN ActiveUsers(users'.map, now')]_vars

\* a banned user's heartbeat after the clock moved: the entry is refreshed
C29_Witness ==
  /\ req.op = "heartbeat"
  /\ BannedNow(req.user)
  /\ ~KickedNow(req.user)
  /\ now > 0
  /\ users.has
  /\ req.user \in DOMAIN users.map
  /\ users.map[req.user] = now
  /\ req.user \in resp.users

\* C30: an accepted ban request stores, under the lowercased target, a
\* record with timestamp = now whose expires is null when the duration is
\* absent or 0 (a permanent ban, which the next post of the target meets as
\* a ban in force) and timestamp + d * 60000 for a positive duration d.
C30_BanExpiryFromDuration ==
  [][(req'.op = "mod" /\ req'.action = "ban" /\ resp'.status = 200)
       => /\ toLowerCase(req'.target) \in DOMAIN banned'.map
          /\ LET ban == banned'.map[toLowerCase(req'.target)]
             IN /\ ban.timestamp = now
                /\ req'.duration \in {NULL, 0} => ban.expires = NULL
                /\ (req'.duration # NULL /\ req'.duration > 0)
                     => ban.expires = ban.timestamp + req'.duration * 60000]_vars

\* a ban asked with duration 0, in force and permanent after the clock moved
C30_Witness ==
  /\ req.op = "mod"
  /\ req.action = "ban"
  /\ req.duration = 0
  /\ resp.status = 200
  /\ now > 0
  /\ BannedNow(req.target)
  /\ banned.map[toLowerCase(req.target)].expires = NULL

====
